---- MODULE Spec2Model ----
(***************************************************************************)
(* Oculus Rift S driver (src/drv_oculus_rift_s/rift-s.c): the registry of  *)
(* open headsets, open_device / close_device, the poll loop update_hmd and *)
(* the head-motion report handler.                                         *)
(*                                                                         *)
(* Heap objects (rift_s_hmd_t) live at addresses; an ohmd_device pointer   *)
(* handed to the caller is the address of the hmd it is embedded in        *)
(* (&hmd->hmd_dev), so a pointer kept after the hmd was freed dangles.     *)
(* 32-bit unsigned values are pairs <<hi, lo>> of 16-bit halves.           *)
(***************************************************************************)
EXTENDS Integers, Sequences, FiniteSets, TLC

\* ------------------------------------------------------------------ bounds
MaxOpens == 3
MaxTicks == 4

\* --------------------------------------------------------------- constants
KEEPALIVE_INTERVAL_MS == 1000
HMD_REPORT_SIZE == 64
CONTROLLER_HEADER_SIZE == 10
NULL == 0

W16 == 256 * 256
Paths == {"hid0", "hid1"}
Addrs == {1, 2}
DescIds == {0, 1}
TickSteps == {500}
ImuHzVals == {500, 1000}
\* OHMD_GRAVITY_EARTH, in micrometres per second squared
OHMD_GRAVITY_EARTH == 9806650
Vec3Zero == <<0, 0, 0>>
Identity3 == <<<<1, 0, 0>>, <<0, 1, 0>>, <<0, 0, 1>>>>
\* the imu_config a headset reports: gyro_scale / 32768 and
\* OHMD_GRAVITY_EARTH / accel_scale are whole numbers for these
ImuConfig(hz, gyro_scale, accel_scale) ==
  [imu_hz |-> hz, gyro_scale |-> gyro_scale, accel_scale |-> accel_scale]
ImuConfigs(H) ==
  {ImuConfig(hz, 32768, OHMD_GRAVITY_EARTH) : hz \in H}
ScaledConfigs ==
  {ImuConfig(1000, 32768, OHMD_GRAVITY_EARTH),
   ImuConfig(1000, 65536, OHMD_GRAVITY_EARTH \div 2)}
\* rift_s_imu_calibration as parsed from the firmware block: offsets and
\* rectification matrices of the accelerometer and of the gyroscope
Calib(ao, ar, go, gr) ==
  [accel |-> [offset_at_0C |-> ao, rectification |-> ar],
   gyro |-> [offset |-> go, rectification |-> gr]]
\* the zeroed calibration of a freshly allocated hmd
NoCalib == Calib(Vec3Zero, <<Vec3Zero, Vec3Zero, Vec3Zero>>,
                 Vec3Zero, <<Vec3Zero, Vec3Zero, Vec3Zero>>)
PlainCalib == Calib(Vec3Zero, Identity3, Vec3Zero, Identity3)
TurnedCalib ==
  Calib(<<1, 2, 3>>, <<<<0, -1, 0>>, <<1, 0, 0>>, <<0, 0, 1>>>>,
        <<2, 0, 1>>, <<<<1, 1, 0>>, <<0, 1, 0>>, <<0, 0, 2>>>>)
CalibBlobs == {PlainCalib, TurnedCalib}
\* raw accel[3] and gyro[3] of one rift_s_hmd_imu_sample_t
Sample(accel, gyro) == [accel |-> accel, gyro |-> gyro]
NoSamples == [i \in 1..3 |-> Sample(Vec3Zero, Vec3Zero)]
SampleSets ==
  {NoSamples,
   <<Sample(<<1, 0, 0>>, <<0, 2, 0>>), Sample(<<3, -2, 1>>, <<-1, 4, 2>>),
     Sample(<<0, 5, -1>>, <<1, 1, 1>>)>>}
MarkerSets ==
  [1..3 -> {0, 129}] \cup {<<1, 128, 0>>}
B1Vals == {0, 1}
HmdSizes == {10, 64}
SysSizes == {1, 2}

\* ------------------------------------------------------- 32-bit arithmetic
U32(hi, lo) == <<hi, lo>>
U32Zero == U32(0, 0)
\* (uint32_t)-1
U32MinusOne == U32(W16 - 1, W16 - 1)
TsVals == {U32Zero, U32(0, 5000), U32(W16 - 1, W16 - 96)}

\* a - b that stops at 0 in place of wrapping
Sub32_saturating(a, b) ==
  IF a[1] < b[1] \/ (a[1] = b[1] /\ a[2] < b[2]) THEN U32Zero
  ELSE LET lo == a[2] - b[2]
           borrow == IF lo < 0 THEN 1 ELSE 0
       IN  U32(a[1] - b[1] - borrow, (lo + W16) % W16)
\* a - b in uint32_t arithmetic
Sub32(a, b) ==
  LET lo == a[2] - b[2]
      borrow == IF lo < 0 THEN 1 ELSE 0
      hi == a[1] - b[1] - borrow
  IN  U32((hi + W16) % W16, (lo + W16) % W16)

\* conversion of a uint32_t to float: 24 significant bits, round to nearest
\* even; the result is again a pair, whose high half reaches W16 for 2^32
FloatOfU32(u) ==
  IF u[1] < 256 THEN u
  ELSE LET k == CHOOSE n \in 1..8 : u[1] < 2^(8 + n) /\ u[1] >= 2^(7 + n)
           q == 2^k
           rem == u[2] % q
           base == u[2] - rem
           odd == ((u[2] \div q) % 2) = 1
           up == (2 * rem > q) \/ (2 * rem = q /\ odd)
           lo == IF up THEN base + q ELSE base
       IN  IF lo = W16 THEN U32(u[1] + 1, 0) ELSE U32(u[1], lo)

\* TICK_LEN = 1.0 / imu_hz, in microseconds (imu_hz divides 10^6 here)
TICK_LEN(imu_hz) == U32(0, 1000000 \div imu_hz)

\* ------------------------------------------------------------------- state
VARIABLES
  rift_hmds,   \* the global list: sequence of [path, hmd], head first
  heap,        \* Addrs -> rift_s_hmd_t (alloc = FALSE: not allocated)
  devices,     \* Addrs -> number of ohmd_device pointers the caller holds
  hid_open,    \* number of HID handles currently open
  now,         \* ohmd_get_tick(), in milliseconds
  pc,          \* "idle", or "poll" while update_hmd is running
  poll,        \* update_hmd's locals: hmd, i, buf[1]; the handles that failed
  crashed,     \* a use of freed memory stopped the process
  last,        \* what the last call did: its trace of hardware events
  rd           \* what the last hid_read() of the running poll led to

\* seen_report and seen_prox in an hmd are history, not fields of the struct:
\* whether a head-motion report was processed, and the proximity value of the
\* last system-state report

vars ==
  <<rift_hmds, heap, devices, hid_open, now, pc, poll, crashed, last, rd>>

\* sensor_fusion is the fusion state as far as this driver shapes it: the
\* last sample handed to ofusion_update(), none after ofusion_init()
NoFusion == [i |-> -1, dt |-> U32Zero, gyro |-> Vec3Zero, accel |-> Vec3Zero]

\* freed or never allocated memory
NoHmd ==
  [alloc |-> FALSE, use_count |-> 0, handles |-> <<FALSE, FALSE, FALSE>>,
   last_imu_timestamp |-> U32Zero, last_keep_alive |-> 0,
   display_on |-> FALSE, device_info |-> FALSE, imu_hz |-> 0, gyro_scale |-> 0, accel_scale |-> 0,
   imu_calibration |-> NoCalib,
   seen_report |-> FALSE, seen_prox |-> "none", seen_controls |-> 0,
   sensor_fusion |-> NoFusion]

NoPoll == [hmd |-> NULL, i |-> 0, buf1 |-> 0, failed |-> {}]

NoLast ==
  [op |-> "init", path |-> "", hmd |-> NULL, ret |-> NULL, trace |-> <<>>,
   list_before |-> <<>>, count_before |-> 0, hid_before |-> 0,
   tick |-> 0, keep_alive_before |-> 0, fail |-> 0, streak |-> 0,
   streak_opens |-> 0, type |-> "", out |-> 0]

NoMarkers == <<0, 0, 0>>

NoRd ==
  [b0 |-> 0, size |-> 0, handle |-> 0, timestamp |-> U32Zero,
   markers |-> NoMarkers,
   prev_timestamp |-> U32Zero, first |-> FALSE, imu_hz |-> 0, parsed |-> FALSE,
   fwd |-> <<>>, prox |-> FALSE, display_before |-> FALSE,
   prox_before |-> "none", cmds |-> <<>>, buttons |-> 0,
   samples |-> NoSamples]

HidOpenEv == <<"hid_open(0)", "hid_open(1)", "hid_open(2)">>
HidCloseEv == <<"hid_close(0)", "hid_close(1)", "hid_close(2)">>

\* ---------------------------------------------------------------- registry
\* find_from with the comparison inverted: strcmp() taken as "equal"
RECURSIVE find_from_inverted(_, _, _)
find_from_inverted(list, hid_path, n) ==
  IF n > Len(list) THEN NULL
  ELSE IF list[n].path # hid_path THEN list[n].hmd
  ELSE find_from_inverted(list, hid_path, n + 1)

RECURSIVE find_from(_, _, _)
find_from(list, hid_path, n) ==
  IF n > Len(list) THEN NULL
  ELSE IF list[n].path = hid_path THEN list[n].hmd
  ELSE find_from(list, hid_path, n + 1)

find_hmd(list, hid_path) == find_from(list, hid_path, 1)

push_hmd(list, hmd, hid_path) == <<[path |-> hid_path, hmd |-> hmd]>> \o list

\* index of the first list node whose hmd pointer is hmd, 0 when none
RECURSIVE node_of(_, _, _)
node_of(list, hmd, n) ==
  IF n > Len(list) THEN 0
  ELSE IF list[n].hmd = hmd THEN n
  ELSE node_of(list, hmd, n + 1)

unlink(list, n) == SubSeq(list, 1, n - 1) \o SubSeq(list, n + 1, Len(list))

\* ------------------------------------------------------------------- close
close_hmd(hmd) ==
  LET en == IF hmd.handles[1] THEN <<"hmd_enable(true)">> ELSE <<>>
      cl(i) == IF hmd.handles[i] THEN <<HidCloseEv[i]>> ELSE <<>>
  IN  [trace |-> en \o cl(1) \o cl(2) \o cl(3) \o <<"free">>,
       closed |-> Cardinality({i \in 1..3 : hmd.handles[i]})]

\* -------------------------------------------------------------------- open
\* where the open sequence fails: step 11 is "nowhere"
StepAlloc == 1
StepOpen0 == 2
StepDeviceInfo == 5
StepReport1 == 6
StepImuConfig == 7
StepFwBlock == 8
StepParseCalib == 9
StepEnable == 10
StepNone == 11
NoFail == [step |-> StepNone, nonblock |-> FALSE]
FailPoints ==
  {[step |-> s, nonblock |-> FALSE] : s \in StepAlloc..StepNone} \cup
  {[step |-> s, nonblock |-> TRUE] : s \in StepOpen0..(StepOpen0 + 2)}

\* read_calibration() that asks for the firmware block again when the read
\* failed
read_calibration_retry(k, cal) ==
  IF k = StepFwBlock
  THEN [ok |-> FALSE, calib |-> NoCalib,
        trace |-> <<"read_firmware_block", "read_firmware_block">>]
  ELSE [ok |-> k > StepParseCalib,
        calib |-> IF k > StepParseCalib THEN cal ELSE NoCalib,
        trace |-> <<"read_firmware_block">>]
\* read_calibration(): one read of the firmware block, then the parse of
\* what it returned
read_calibration(k, cal) ==
  [ok |-> k > StepParseCalib,
   calib |-> IF k > StepParseCalib THEN cal ELSE NoCalib,
   trace |-> <<"read_firmware_block">>]

\* open_result that does not look at what rift_s_read_imu_config() returned
open_result_config_unchecked(k, priv, steps) ==
  IF k = StepAlloc THEN [ok |-> FALSE, priv |-> NoHmd, trace |-> <<>>]
  ELSE IF k \in {StepImuConfig, StepNone}
  THEN [ok |-> TRUE, priv |-> priv, trace |-> steps]
  ELSE [ok |-> FALSE, priv |-> NoHmd,
        trace |-> steps \o close_hmd(priv).trace]
\* return priv when no step failed; otherwise the cleanup label: close_hmd()
\* of what there is, return NULL
open_result(k, priv, steps) ==
  IF k = StepAlloc THEN [ok |-> FALSE, priv |-> NoHmd, trace |-> <<>>]
  ELSE IF k = StepNone THEN [ok |-> TRUE, priv |-> priv, trace |-> steps]
  ELSE [ok |-> FALSE, priv |-> NoHmd,
        trace |-> steps \o close_hmd(priv).trace]

open_hmd(fp, cfg, cal) ==
  LET k == fp.step
      h(i) == k > StepOpen0 + i - 1
      op(i) == IF h(i) THEN <<HidOpenEv[i]>>
               ELSE IF k = StepOpen0 + i - 1 /\ fp.nonblock
                    THEN <<HidOpenEv[i], HidCloseEv[i]>>
               ELSE <<>>
      cmd(s, name) == IF k >= s THEN <<name>> ELSE <<>>
      rc == read_calibration(k, cal)
      priv == [alloc |-> TRUE, use_count |-> 1,
               handles |-> <<h(1), h(2), h(3)>>,
               last_imu_timestamp |-> U32MinusOne,
               last_keep_alive |-> 0, display_on |-> FALSE,
               device_info |-> k > StepDeviceInfo,
               imu_hz |-> IF k > StepImuConfig THEN cfg.imu_hz ELSE 0,
               gyro_scale |-> IF k > StepImuConfig THEN cfg.gyro_scale ELSE 0,
               accel_scale |-> IF k > StepImuConfig THEN cfg.accel_scale
                               ELSE 0,
               imu_calibration |-> IF k >= StepFwBlock THEN rc.calib
                                   ELSE NoCalib,
               seen_report |-> FALSE, seen_prox |-> "none",
               seen_controls |-> 0, sensor_fusion |-> NoFusion]
      steps == op(1) \o op(2) \o op(3)
               \o cmd(StepDeviceInfo, "read_device_info")
               \o cmd(StepReport1, "get_report1")
               \o cmd(StepImuConfig, "read_imu_config")
               \o (IF k >= StepFwBlock THEN rc.trace ELSE <<>>)
               \o cmd(StepEnable, "hmd_enable(true)")
  IN  open_result(k, priv, steps)

Count(seq, S) == Cardinality({n \in 1..Len(seq) : seq[n] \in S})
Opens(trace) == Count(trace, {HidOpenEv[i] : i \in 1..3})
Closes(trace) == Count(trace, {HidCloseEv[i] : i \in 1..3})

Held == devices[1] + devices[2]

Init ==
  /\ rift_hmds = <<>>
  /\ heap = [a \in Addrs |-> NoHmd]
  /\ devices = [a \in Addrs |-> 0]
  /\ hid_open = 0
  /\ now = 0
  /\ pc = "idle"
  /\ poll = NoPoll
  /\ crashed = FALSE
  /\ last = NoLast
  /\ rd = NoRd

Ready == pc = "idle" /\ ~crashed

\* open_device(): desc->path, desc->id, and what the hardware does
open_device(path, id, fp, cfg, cal) ==
  /\ Ready
  /\ Held < MaxOpens
  /\ LET found == find_hmd(rift_hmds, path)
         base == [NoLast EXCEPT !.op = "open_device", !.path = path,
                    !.hmd = found, !.list_before = rift_hmds,
                    !.count_before = IF found = NULL THEN 0
                                     ELSE heap[found].use_count,
                    !.hid_before = hid_open]
         \* successful opens of this path in a row, this one included, and
         \* how many of them ran open_hmd()
         again == last.op = "open_device" /\ last.path = path
                  /\ last.ret # NULL
         streak == IF again THEN last.streak + 1 ELSE 1
         before == IF again THEN last.streak_opens ELSE 0
     IN
     IF found # NULL
     THEN \* the hmd is already open: the hardware inputs play no part
          /\ UNCHANGED <<rift_hmds, heap, hid_open>>
          /\ IF id = 0
             THEN /\ devices' = [devices EXCEPT ![found] = @ + 1]
                  /\ last' = [base EXCEPT !.ret = found, !.streak = streak,
                                           !.streak_opens = before]
             ELSE /\ UNCHANGED devices
                  /\ last' = base
     ELSE LET r == open_hmd(fp, cfg, cal)
          IN  IF ~r.ok
              THEN /\ UNCHANGED <<rift_hmds, heap, devices>>
                   /\ hid_open' = hid_open + Opens(r.trace) - Closes(r.trace)
                   /\ last' = [base EXCEPT !.trace = r.trace,
                                            !.fail = fp.step]
              ELSE \E a \in {x \in Addrs : ~heap[x].alloc} :
                   /\ heap' = [heap EXCEPT ![a] = r.priv]
                   /\ rift_hmds' = push_hmd(rift_hmds, a, path)
                   /\ hid_open' = hid_open + Opens(r.trace) - Closes(r.trace)
                   /\ IF id = 0
                      THEN /\ devices' = [devices EXCEPT ![a] = @ + 1]
                           /\ last' = [base EXCEPT !.hmd = a, !.ret = a,
                                            !.trace = r.trace \o <<"push">>,
                                            !.fail = fp.step,
                                            !.streak = streak,
                                            !.streak_opens = before + 1]
                      ELSE /\ UNCHANGED devices
                           /\ last' = [base EXCEPT !.hmd = a,
                                            !.trace = r.trace \o <<"push">>,
                                            !.fail = fp.step]
  /\ UNCHANGED <<now, pc, poll, crashed, rd>>

Opening(P, I, F, H, C) ==
  \E path \in P, id \in I, fp \in F, cfg \in H, cal \in C :
    open_device(path, id, fp, cfg, cal)

\* any path, any desc->id, the open sequence failing anywhere
OpenDevice ==
  Opening(Paths, DescIds, FailPoints, ImuConfigs({1000}), CalibBlobs)

\* one headset that opens, with either sample rate
OpenHeadset ==
  Opening({"hid0"}, {0}, {NoFail}, ImuConfigs(ImuHzVals), {PlainCalib})
OpenCalibrated ==
  Opening({"hid0"}, {0}, {NoFail}, ScaledConfigs, CalibBlobs)

\* release_hmd() on an hmd that is allocated
release_hmd(a) ==
  LET hmd == heap[a]
      n == node_of(rift_hmds, a, 1)
      base == [NoLast EXCEPT !.op = "close_device", !.hmd = a,
                 !.list_before = rift_hmds, !.count_before = hmd.use_count,
                 !.hid_before = hid_open]
  IN  IF hmd.use_count > 1
      THEN /\ heap' = [heap EXCEPT ![a].use_count = @ - 1]
           /\ last' = base
           /\ UNCHANGED <<rift_hmds, hid_open>>
      ELSE IF n # 0
      THEN LET c == close_hmd(hmd)
           IN  /\ heap' = [heap EXCEPT ![a] = NoHmd]
               /\ rift_hmds' = unlink(rift_hmds, n)
               /\ hid_open' = hid_open - c.closed
               /\ last' = [base EXCEPT !.path = rift_hmds[n].path,
                                        !.trace = c.trace \o <<"unlink">>]
      ELSE /\ last' = [base EXCEPT !.trace = <<"LOGE">>]
           /\ UNCHANGED <<rift_hmds, heap, hid_open>>

\* the caller's pointer dangles: dev_priv->hmd is read from freed memory
use_after_free(op) ==
  /\ last' = [NoLast EXCEPT !.op = op]
  /\ crashed' \in BOOLEAN
  /\ UNCHANGED <<rift_hmds, heap, hid_open>>

\* close_device() on one of the ohmd_device pointers the caller holds
close_device(a) ==
  /\ Ready
  /\ devices[a] > 0
  /\ devices' = [devices EXCEPT ![a] = @ - 1]
  /\ IF heap[a].alloc
     THEN release_hmd(a) /\ UNCHANGED crashed
     ELSE use_after_free("close_device")
  /\ UNCHANGED <<now, pc, poll, rd>>

CloseDevice == \E a \in Addrs : close_device(a)

\* getf_hmd(): what the call leaves in the caller's buffer out
getf_hmd(hmd, type, out) ==
  IF type = "OHMD_DISTORTION_K" THEN [ret |-> 0, out |-> 0]
  ELSE IF type = "OHMD_ROTATION_QUAT"
  THEN [ret |-> 0, out |-> hmd.sensor_fusion]
  ELSE IF type = "OHMD_POSITION_VECTOR" THEN [ret |-> 0, out |-> 0]
  ELSE IF type = "OHMD_CONTROLS_STATE" THEN [ret |-> 0, out |-> out]
  ELSE [ret |-> -1, out |-> out]

FloatTypes ==
  {"OHMD_DISTORTION_K", "OHMD_ROTATION_QUAT", "OHMD_POSITION_VECTOR",
   "OHMD_CONTROLS_STATE", "OHMD_EYE_IPD"}
\* what the caller's buffer holds before the call
OutVals == {0, 7}

\* getf() on one of the ohmd_device pointers the caller holds
getf(a, type, out) ==
  /\ Ready
  /\ devices[a] > 0
  /\ IF heap[a].alloc
     THEN LET r == getf_hmd(heap[a], type, out)
          IN  /\ last' = [NoLast EXCEPT !.op = "getf", !.hmd = a,
                                        !.type = type, !.ret = r.ret,
                                        !.out = r.out]
              /\ UNCHANGED <<rift_hmds, heap, hid_open, crashed>>
     ELSE use_after_free("getf")
  /\ UNCHANGED <<devices, now, pc, poll, rd>>

GetF == \E a \in Addrs, type \in FloatTypes, out \in OutVals : getf(a, type, out)

\* wall-clock time passes between calls
Tick ==
  /\ Ready
  /\ \E d \in TickSteps : now \div d < MaxTicks /\ now' = now + d
  /\ UNCHANGED <<rift_hmds, heap, devices, hid_open, pc, poll, crashed, last, rd>>

\* ------------------------------------------------------------------ reports
\* what one hid_read() returns: size, and for size > 0 the bytes written
\* to buf (the leading id, buf[1], and the fields of a head-motion report)
Read(size, b0, b1, ts, markers) ==
  [size |-> size, b0 |-> b0, b1 |-> b1, timestamp |-> ts, markers |-> markers,
   blocks_ok |-> TRUE, buttons |-> 0, samples |-> NoSamples]
\* a controller report: whether its info blocks are well formed, and the
\* value of its buttons block
CtrlRead(size, ok, buttons) ==
  [Read(size, 103, 0, U32Zero, NoMarkers) EXCEPT !.blocks_ok = ok,
                                                 !.buttons = buttons]
\* rift_s_parse_hmd_report(): the buffer holds a whole head-motion report
rift_s_parse_hmd_report(r) == r.b0 = 101 /\ r.size >= HMD_REPORT_SIZE

\* rift_s_parse_controller_report(): the buffer holds the fixed header and
\* every info block of the tail is well formed
rift_s_parse_controller_report(r) ==
  r.size >= CONTROLLER_HEADER_SIZE /\ r.blocks_ok

\* s->marker & 0x80
Invalid(marker) == (marker \div 128) % 2 = 1

\* the sample loop of handle_hmd_report(): the (index, dt) pairs handed to
\* ofusion_update(), in call order
\* sample_loop with continue in place of break
RECURSIVE sample_loop_continue(_, _, _, _)
sample_loop_continue(markers, i, dt, tick) ==
  IF i > 3 THEN <<>>
  ELSE IF Invalid(markers[i]) THEN sample_loop_continue(markers, i + 1, dt, tick)
  ELSE <<[i |-> i - 1, dt |-> dt]>>
       \o sample_loop_continue(markers, i + 1, tick, tick)

\* sample_loop without the reset of dt at the end of the body
RECURSIVE sample_loop_keep_dt(_, _, _, _)
sample_loop_keep_dt(markers, i, dt, tick) ==
  IF i > 3 THEN <<>>
  ELSE IF Invalid(markers[i]) THEN <<>>
  ELSE <<[i |-> i - 1, dt |-> dt]>>
       \o sample_loop_keep_dt(markers, i + 1, dt, tick)

RECURSIVE sample_loop(_, _, _, _)
sample_loop(markers, i, dt, tick) ==
  IF i > 3 THEN <<>>
  ELSE IF Invalid(markers[i]) THEN <<>>
  ELSE <<[i |-> i - 1, dt |-> dt]>> \o sample_loop(markers, i + 1, tick, tick)

\* dt before the loop
first_dt(priv, timestamp) ==
  IF priv.last_imu_timestamp # U32Zero
  THEN FloatOfU32(Sub32(timestamp, priv.last_imu_timestamp))
  ELSE TICK_LEN(priv.imu_hz)

\* out[i] = sum_j rot[i][j] * in[j]
vec3f_rotate_3x3(vec, rot) ==
  [i \in 1..3 |->
     rot[i][1] * vec[1] + rot[i][2] * vec[2] + rot[i][3] * vec[3]]

\* the correction with the two steps swapped
correct_rotate_first(vec, offset, rot) ==
  LET turned == vec3f_rotate_3x3(vec, rot)
  IN  [j \in 1..3 |-> turned[j] - offset[j]]
\* "Apply correction offsets first, then rectify"
correct(vec, offset, rot) ==
  vec3f_rotate_3x3([j \in 1..3 |-> vec[j] - offset[j]], rot)

\* what ofusion_update() is handed for sample s, forwarded as f
fusion_input(priv, s, f) ==
  LET gyro_scale == priv.gyro_scale \div 32768
      accel_scale == OHMD_GRAVITY_EARTH \div priv.accel_scale
      gyro == [j \in 1..3 |-> gyro_scale * s.gyro[j]]
      accel == [j \in 1..3 |-> accel_scale * s.accel[j]]
  IN  [i |-> f.i, dt |-> f.dt,
       gyro |-> correct(gyro, priv.imu_calibration.gyro.offset,
                        priv.imu_calibration.gyro.rectification),
       accel |-> correct(accel, priv.imu_calibration.accel.offset_at_0C,
                         priv.imu_calibration.accel.rectification)]
\* the body of the sample loop applied to the samples the loop reaches
forwarded(priv, r) ==
  LET loop == sample_loop(r.markers, 1, first_dt(priv, r.timestamp),
                          TICK_LEN(priv.imu_hz))
  IN  [n \in 1..Len(loop) |->
         fusion_input(priv, r.samples[loop[n].i + 1], loop[n])]

\* handle_hmd_report that stores the timestamp before looking at the
\* result of the parse
handle_hmd_report_unchecked(priv, r) ==
  IF ~rift_s_parse_hmd_report(r)
  THEN [priv |-> [priv EXCEPT !.last_imu_timestamp = r.timestamp],
        fwd |-> <<>>]
  ELSE LET fwd == forwarded(priv, r)
       IN  [priv |-> [priv EXCEPT !.last_imu_timestamp = r.timestamp,
                                  !.seen_report = TRUE,
                                  !.sensor_fusion =
                                     IF fwd = <<>> THEN @ ELSE fwd[Len(fwd)]],
            fwd |-> fwd]

\* handle_hmd_report that stores the timestamp inside the loop body, so only
\* when a sample was forwarded
handle_hmd_report_stamp_in_loop(priv, r) ==
  IF ~rift_s_parse_hmd_report(r) THEN [priv |-> priv, fwd |-> <<>>]
  ELSE LET fwd == forwarded(priv, r)
       IN  [priv |-> [priv EXCEPT !.last_imu_timestamp =
                                     IF fwd = <<>> THEN @ ELSE r.timestamp,
                                  !.seen_report = TRUE,
                                  !.sensor_fusion =
                                     IF fwd = <<>> THEN @ ELSE fwd[Len(fwd)]],
            fwd |-> fwd]

handle_hmd_report(priv, r) ==
  IF ~rift_s_parse_hmd_report(r) THEN [priv |-> priv, fwd |-> <<>>]
  ELSE LET fwd == forwarded(priv, r)
       IN  [priv |-> [priv EXCEPT !.last_imu_timestamp = r.timestamp,
                                  !.seen_report = TRUE,
                                  !.sensor_fusion =
                                     IF fwd = <<>> THEN @ ELSE fwd[Len(fwd)]],
            fwd |-> fwd]

\* handle_controller_report(): the report is parsed into a local and dropped
handle_controller_report(priv, r) ==
  [priv |-> priv, parsed |-> rift_s_parse_controller_report(r)]

\* handle_system_state without the update of the cached flag
handle_system_state_uncached(priv, b1) ==
  LET prox_sensor == b1 # 0
      seen == IF prox_sensor THEN "near" ELSE "far"
  IN  IF prox_sensor # priv.display_on
      THEN [priv |-> [priv EXCEPT !.seen_prox = seen],
            cmds |-> <<IF prox_sensor THEN "screen_enable(true)"
                       ELSE "screen_enable(false)">>]
      ELSE [priv |-> [priv EXCEPT !.seen_prox = seen], cmds |-> <<>>]

\* the 0x66 branch of update_hmd()
handle_system_state(priv, b1) ==
  LET prox_sensor == b1 # 0
      seen == IF prox_sensor THEN "near" ELSE "far"
  IN  IF prox_sensor # priv.display_on
      THEN [priv |-> [priv EXCEPT !.display_on = prox_sensor,
                                  !.seen_prox = seen],
            cmds |-> <<IF prox_sensor THEN "screen_enable(true)"
                       ELSE "screen_enable(false)">>]
      ELSE [priv |-> [priv EXCEPT !.seen_prox = seen], cmds |-> <<>>]

\* --------------------------------------------------------------------- poll
\* keepalive_due with > in place of >=
keepalive_due_strict(priv, t) ==
  t - priv.last_keep_alive > KEEPALIVE_INTERVAL_MS

\* the keep-alive test at the top of update_hmd()
keepalive_due(priv, t) == t - priv.last_keep_alive >= KEEPALIVE_INTERVAL_MS

\* the next handle at or after index i that is not NULL, 4 when none
RECURSIVE next_handle(_, _)
next_handle(priv, i) ==
  IF i > 3 THEN 4
  ELSE IF priv.handles[i] THEN i
  ELSE next_handle(priv, i + 1)

\* end_of_reads where a failed read returns from update_hmd()
end_of_reads_return_on_error(priv, i, size) ==
  IF size < 0 THEN 4 ELSE next_handle(priv, i + 1)

\* end_of_reads where "no more messages" returns from update_hmd()
end_of_reads_return_on_zero(priv, i, size) ==
  IF size = 0 THEN 4 ELSE next_handle(priv, i + 1)

\* the handle update_hmd() turns to after hid_read() on handle i returned
\* size <= 0: both breaks leave the while loop only
end_of_reads(priv, i, size) == next_handle(priv, i + 1)

\* update_device(): the keep-alive part of update_hmd(), up to the first read
update_begin(a) ==
  /\ Ready
  /\ devices[a] > 0
  /\ UNCHANGED <<devices, now>>
  /\ rd' = NoRd
  /\ IF ~heap[a].alloc
     THEN use_after_free("update_device") /\ UNCHANGED <<pc, poll>>
     ELSE LET priv == heap[a]
              due == keepalive_due(priv, now)
              i == next_handle(priv, 1)
          IN  /\ heap' = IF due THEN [heap EXCEPT ![a].last_keep_alive = now]
                         ELSE heap
              /\ last' = [NoLast EXCEPT !.op = "update_device", !.hmd = a,
                            !.tick = now,
                            !.keep_alive_before = priv.last_keep_alive,
                            !.trace = IF due THEN <<"keepalive">> ELSE <<>>]
              /\ \E b \in B1Vals :
                   poll' = IF i > 3 THEN NoPoll
                           ELSE [hmd |-> a, i |-> i, buf1 |-> b, failed |-> {}]
              /\ pc' = IF i > 3 THEN "idle" ELSE "poll"
              /\ UNCHANGED <<rift_hmds, hid_open, crashed>>

UpdateDevice == \E a \in Addrs : update_begin(a)

\* one turn of the while loop of update_hmd(): hid_read() and dispatch
poll_read(r) ==
  /\ pc = "poll"
  /\ LET a == poll.hmd
         priv == heap[a]
     IN
     IF r.size <= 0
     THEN LET i == end_of_reads(priv, poll.i, r.size)
          IN  /\ poll' = IF i > 3 THEN NoPoll
                         ELSE [poll EXCEPT !.i = i,
                                 !.failed = IF r.size < 0 THEN @ \cup {poll.i}
                                            ELSE @]
              /\ pc' = IF i > 3 THEN "idle" ELSE "poll"
              /\ rd' = [NoRd EXCEPT !.size = r.size, !.handle = poll.i]
              /\ UNCHANGED heap
     ELSE LET b1 == IF r.size >= 2 THEN r.b1 ELSE poll.buf1
              h == handle_hmd_report(priv, r)
              s == handle_system_state(priv, b1)
              base == [NoRd EXCEPT !.b0 = r.b0, !.size = r.size,
                         !.handle = poll.i,
                         !.display_before = priv.display_on,
                         !.prox_before = priv.seen_prox,
                         !.first = ~priv.seen_report,
                         !.prev_timestamp = priv.last_imu_timestamp,
                         !.imu_hz = priv.imu_hz]
          IN  /\ poll' = [poll EXCEPT !.buf1 = b1]
              /\ pc' = pc
              /\ IF r.b0 = 101
                 THEN /\ heap' = [heap EXCEPT ![a] = h.priv]
                      /\ rd' = [base EXCEPT
                                  !.parsed = rift_s_parse_hmd_report(r),
                                  !.timestamp = r.timestamp,
                                  !.markers = r.markers,
                                  !.samples = r.samples, !.fwd = h.fwd]
                 ELSE IF r.b0 = 102
                 THEN /\ heap' = [heap EXCEPT ![a] = s.priv]
                      /\ rd' = [base EXCEPT !.prox = (b1 # 0),
                                            !.cmds = s.cmds]
                 ELSE IF r.b0 = 103
                 THEN LET c == handle_controller_report(priv, r)
                      IN  /\ heap' = [heap EXCEPT ![a] =
                                    [c.priv EXCEPT !.seen_controls =
                                       IF c.parsed THEN r.buttons ELSE @]]
                          /\ rd' = [base EXCEPT !.parsed = c.parsed,
                                                !.buttons = r.buttons]
                 ELSE /\ UNCHANGED heap
                      /\ rd' = base
  /\ UNCHANGED <<rift_hmds, devices, hid_open, now, crashed, last>>

Polling(R) == \E r \in R : poll_read(r)

EndReads == {Read(sz, 0, 0, U32Zero, NoMarkers) : sz \in {-1, 0}}
HmdReads ==
  {Read(HMD_REPORT_SIZE, 101, 0, ts, m) : ts \in TsVals, m \in MarkerSets} \cup
  {Read(sz, 101, 0, U32Zero, NoMarkers) : sz \in HmdSizes \ {HMD_REPORT_SIZE}}
SysReads ==
  {Read(sz, 102, b1, U32Zero, NoMarkers) : sz \in SysSizes, b1 \in B1Vals}
OtherReads == {Read(20, b0, 0, U32Zero, NoMarkers) : b0 \in {103, 1}}
OneHmdRead == {Read(HMD_REPORT_SIZE, 101, 0, U32(0, 5000), NoMarkers)}
\* reports that do not decode: a short head-motion report, a short
\* controller report, one with a malformed info block
RejectedReads ==
  {Read(10, 101, 0, U32Zero, NoMarkers), CtrlRead(5, TRUE, 0),
   CtrlRead(20, FALSE, 1)}
\* head-motion reports with sample values
CalibReads ==
  {[Read(HMD_REPORT_SIZE, 101, 0, U32(0, 5000), m) EXCEPT !.samples = v] :
     m \in {<<0, 0, 0>>, <<0, 0, 129>>, <<129, 0, 0>>}, v \in SampleSets}
\* controller reports
CtrlReads ==
  {CtrlRead(20, TRUE, b) : b \in {1, 2}} \cup {CtrlRead(20, FALSE, 3)}
OneSysRead == {Read(2, 102, 1, U32Zero, NoMarkers)}

\* a poll of the session model: the loop ends, or one report of a kind
PollFew == Polling(EndReads \cup OneSysRead \cup OneHmdRead)
\* a poll of the head-motion model
PollImu == Polling(EndReads \cup HmdReads \cup OtherReads)
\* a poll of the keep-alive and display model
PollSys ==
  Polling(EndReads \cup SysReads \cup OneHmdRead \cup OtherReads
          \cup RejectedReads)

\* sessions: any number of paths, failing opens, shared and dangling devices
Next == OpenDevice \/ CloseDevice \/ UpdateDevice \/ PollFew
Spec == Init /\ [][Next]_vars

\* head-motion reports of one headset
NextImu == OpenHeadset \/ CloseDevice \/ UpdateDevice \/ PollImu
SpecImu == Init /\ [][NextImu]_vars

\* keep-alive and display toggling of one headset as time passes
NextPoll == OpenHeadset \/ CloseDevice \/ Tick \/ UpdateDevice \/ PollSys
SpecPoll == Init /\ [][NextPoll]_vars

\* calibrated samples of one headset
PollCalib == Polling(EndReads \cup CalibReads)
NextCalib == OpenCalibrated \/ CloseDevice \/ UpdateDevice \/ PollCalib
SpecCalib == Init /\ [][NextCalib]_vars

\* controller reports of one headset and what getf() returns
PollCtrl == Polling(EndReads \cup CtrlReads)
NextCtrl == OpenHeadset \/ CloseDevice \/ UpdateDevice \/ PollCtrl \/ GetF
SpecCtrl == Init /\ [][NextCtrl]_vars

\* polls in which every handle runs out of data or fails in the end
PollEnd == Polling(EndReads)
NextFair == OpenHeadset \/ CloseDevice \/ UpdateDevice \/ PollFew
SpecFair == Init /\ [][NextFair]_vars /\ WF_vars(PollEnd)

\* ================================================================== claims
IsCommand(e) ==
  e \in {"read_device_info", "get_report1", "read_imu_config",
         "read_firmware_block", "hmd_enable(true)", "hmd_enable(false)"}
Commands(trace) == SelectSeq(trace, IsCommand)
Registered(a) == \E n \in 1..Len(rift_hmds) : rift_hmds[n].hmd = a
AllHandlesOpen(a) == \A i \in 1..3 : heap[a].handles[i]

\* C1: after two successful open_device() calls in a row on the same path the
\* hmd's use_count is 2, and open_hmd() ran exactly once over the two calls
C1_SecondAcquireCounts ==
  (last.op = "open_device" /\ last.ret # NULL /\ last.streak = 2) =>
    (heap[last.ret].use_count = 2 /\ last.streak_opens = 1)

\* C2: as long as the caller still holds a device of an hmd (fewer releases
\* than acquires), the hmd is allocated, registered and has its handles open
C2_TeardownOnlyOnLastRelease ==
  \A a \in Addrs :
    devices[a] > 0 => (heap[a].alloc /\ Registered(a) /\ AllHandlesOpen(a))

\* the commands of the open sequence up to and including step k
OpenCommandsUpTo(k) ==
  (IF k >= StepDeviceInfo THEN <<"read_device_info">> ELSE <<>>)
  \o (IF k >= StepReport1 THEN <<"get_report1">> ELSE <<>>)
  \o (IF k >= StepImuConfig THEN <<"read_imu_config">> ELSE <<>>)
  \o (IF k >= StepFwBlock THEN <<"read_firmware_block">> ELSE <<>>)
  \o (IF k >= StepEnable THEN <<"hmd_enable(true)">> ELSE <<>>)

\* C3: when open_device() returns failure, every handle it opened is closed
\* again, the list of hmds is what it was before the call, and the hardware
\* got no command beyond those of the open sequence up to the failing step
C3_FailedOpenLeavesNothing ==
  (last.op = "open_device" /\ last.ret = NULL) =>
    /\ hid_open = last.hid_before
    /\ rift_hmds = last.list_before
    /\ Commands(last.trace) = OpenCommandsUpTo(last.fail)

\* C4: with imu_hz = 1000, a head-motion report with timestamp 5000 that
\* follows one with timestamp 0 hands dt = 5000 us to the fusion update for
\* its first valid sample
C4_DtAfterTimestampZero ==
  (rd.b0 = 101 /\ rd.parsed /\ ~rd.first /\ rd.imu_hz = 1000
   /\ rd.prev_timestamp = U32Zero /\ rd.timestamp = U32(0, 5000)
   /\ rd.fwd # <<>>) =>
    rd.fwd[1].dt = U32(0, 5000)

\* C5: the first head-motion report an hmd processes hands the fixed tick
\* length 1/imu_hz to the fusion update for its first valid sample
C5_FirstReportUsesTickLen ==
  (rd.b0 = 101 /\ rd.parsed /\ rd.first /\ rd.fwd # <<>>) =>
    rd.fwd[1].dt = U32(0, 1000000 \div rd.imu_hz)

\* C6: of a head-motion report, exactly the samples before the first one with
\* the 0x80 bit set in its marker are forwarded, once each, in array order
FirstInvalid(markers) ==
  IF \E i \in 1..3 : markers[i] \div 128 >= 1
  THEN CHOOSE i \in 1..3 : /\ markers[i] \div 128 >= 1
                           /\ \A j \in 1..(i - 1) : markers[j] \div 128 = 0
  ELSE 4
C6_InvalidSampleStopsReport ==
  (rd.b0 = 101 /\ rd.parsed) =>
    /\ Len(rd.fwd) = FirstInvalid(rd.markers) - 1
    /\ \A n \in 1..Len(rd.fwd) : rd.fwd[n].i = n - 1
C6_Witness ==
  /\ rd.b0 = 101 /\ rd.parsed
  /\ rd.markers[1] < 128 /\ rd.markers[2] >= 128 /\ rd.markers[3] < 128
  /\ Len(rd.fwd) = 1

\* C7: the release that tears an hmd down sends hmd_enable(false), then
\* closes the three handles, then takes the hmd off the list, after which
\* find_hmd() of its path returns nothing
C7_ClosingDisablesThenCloses ==
  (last.op = "close_device" /\ Count(last.trace, {"unlink"}) > 0) =>
    /\ Len(last.trace) >= 5
    /\ last.trace[1] = "hmd_enable(false)"
    /\ SubSeq(last.trace, 2, 4) = HidCloseEv
    /\ last.trace[Len(last.trace)] = "unlink"
    /\ find_hmd(rift_hmds, last.path) = NULL

\* C8: the list of hmds never holds two nodes with the same path
C8_OneSessionPerPath ==
  \A m, n \in 1..Len(rift_hmds) :
    m # n => rift_hmds[m].path # rift_hmds[n].path
C8_Witness ==
  /\ last.op = "open_device" /\ last.ret # NULL /\ last.streak = 2
  /\ Len(rift_hmds) = 2

\* C9: a poll sends a keep-alive, once, exactly when KEEPALIVE_INTERVAL_MS or
\* more passed since last_keep_alive, and then sets last_keep_alive to the
\* time of the poll; otherwise it sends none and leaves last_keep_alive; this
\* holds before and after every report the poll reads
C9_KeepaliveOncePerPoll ==
  (last.op = "update_device" /\ last.hmd # NULL) =>
    LET sent == Count(last.trace, {"keepalive"})
        elapsed == last.tick - last.keep_alive_before
    IN  /\ sent <= 1
        /\ Len(last.trace) = sent
        /\ Count(rd.cmds, {"keepalive"}) = 0
        /\ (sent = 1) <=> (elapsed >= 1000)
        /\ sent = 1 => heap[last.hmd].last_keep_alive = last.tick
        /\ sent = 0 => heap[last.hmd].last_keep_alive = last.keep_alive_before
C9_Witness ==
  /\ last.op = "update_device" /\ last.hmd # NULL
  /\ pc = "poll" /\ rd.size > 0
  /\ last.trace = <<"keepalive">>
  /\ last.keep_alive_before > 0
  /\ last.tick - last.keep_alive_before = 1000

\* C10: a system-state report sends a screen command exactly when its
\* proximity flag differs from display_on; afterwards display_on is the flag;
\* a report whose flag repeats the previous system-state report's sends none
C10_DisplayToggle ==
  rd.b0 = 102 =>
    /\ (rd.cmds # <<>>) <=> (rd.prox # rd.display_before)
    /\ rd.cmds # <<>> =>
         rd.cmds = <<IF rd.prox THEN "screen_enable(true)"
                     ELSE "screen_enable(false)">>
    /\ heap[poll.hmd].display_on = rd.prox
    /\ rd.prox_before = (IF rd.prox THEN "near" ELSE "far") => rd.cmds = <<>>
C10_Witness ==
  /\ rd.b0 = 102 /\ rd.prox /\ rd.prox_before = "near" /\ rd.cmds = <<>>
  /\ heap[poll.hmd].display_on

\* C11: after hid_read() failed on handle i the poll goes on with handle
\* i + 1 (it returns only when i was the last handle), reports read from the
\* later handles are still dispatched, and the hmd stays allocated,
\* registered and with its three handles open
C11_ErrorConfinedToHandle ==
  (last.op = "update_device" /\ last.hmd # NULL) =>
    /\ (rd.size < 0 /\ rd.handle < 3) => (pc = "poll" /\ poll.i = rd.handle + 1)
    /\ (rd.size < 0 /\ rd.handle = 3) => pc = "idle"
    /\ pc = "poll" => \A i \in poll.failed : i < poll.i
    /\ (rd.size < 0 \/ poll.failed # {}) =>
         /\ heap[last.hmd].alloc /\ heap[last.hmd].use_count >= 1
         /\ Registered(last.hmd) /\ AllHandlesOpen(last.hmd)
C11_Witness ==
  /\ last.op = "update_device" /\ pc = "poll"
  /\ 1 \in poll.failed /\ rd.size > 0 /\ rd.handle = 2
  /\ rd.b0 = 102 /\ rd.cmds # <<>>

\* C12: a report that is rejected (unknown leading id, or a head-motion or
\* controller report that does not parse) changes nothing of any hmd, of the
\* list, of the open handles, sends no command and no fusion update, and the
\* poll stays on the same handle
Rejected(x) ==
  /\ x.size > 0
  /\ \/ x.b0 \notin {101, 102, 103}
     \/ x.b0 \in {101, 103} /\ ~x.parsed
C12_RejectedReportLeavesSession ==
  [][(pc = "poll" /\ pc' = "poll" /\ Rejected(rd')) =>
       /\ heap' = heap /\ rift_hmds' = rift_hmds /\ hid_open' = hid_open
       /\ last' = last /\ rd'.fwd = <<>> /\ rd'.cmds = <<>>
       /\ poll'.hmd = poll.hmd /\ poll'.i = poll.i]_vars
C12_Witness ==
  /\ pc = "poll" /\ Rejected(rd) /\ rd.b0 = 101
  /\ heap[poll.hmd].seen_report /\ heap[poll.hmd].display_on
  /\ heap[poll.hmd].sensor_fusion # NoFusion

\* C13: every forwarded sample carries, for the accelerometer and for the
\* gyroscope, R * (scaled_raw - offset) with out[i] = sum_j R[i][j] * in[j];
\* where R * scaled_raw - offset differs from it, it is not what is forwarded
MatVec(R, v) == [i \in 1..3 |-> R[i][1] * v[1] + R[i][2] * v[2] + R[i][3] * v[3]]
VecSub(v, w) == [j \in 1..3 |-> v[j] - w[j]]
VecScale(k, v) == [j \in 1..3 |-> k * v[j]]
ScaledAccel(priv, s) == VecScale(OHMD_GRAVITY_EARTH \div priv.accel_scale, s.accel)
ScaledGyro(priv, s) == VecScale(priv.gyro_scale \div 32768, s.gyro)
C13_OffsetThenRectify ==
  (rd.b0 = 101 /\ rd.parsed) =>
    \A n \in 1..Len(rd.fwd) :
      LET priv == heap[last.hmd]
          c == priv.imu_calibration
          s == rd.samples[rd.fwd[n].i + 1]
      IN  /\ rd.fwd[n].accel =
               MatVec(c.accel.rectification,
                      VecSub(ScaledAccel(priv, s), c.accel.offset_at_0C))
          /\ rd.fwd[n].gyro =
               MatVec(c.gyro.rectification,
                      VecSub(ScaledGyro(priv, s), c.gyro.offset))
C13_Witness ==
  /\ rd.b0 = 101 /\ rd.parsed /\ Len(rd.fwd) = 3
  /\ heap[last.hmd].gyro_scale = 65536
  /\ \A n \in 1..3 :
       LET priv == heap[last.hmd]
           c == priv.imu_calibration
           s == rd.samples[n]
       IN  /\ rd.fwd[n].accel #
                VecSub(MatVec(c.accel.rectification, ScaledAccel(priv, s)),
                       c.accel.offset_at_0C)
           /\ rd.fwd[n].gyro #
                VecSub(MatVec(c.gyro.rectification, ScaledGyro(priv, s)),
                       c.gyro.offset)

\* C14: an open_device() call reads the calibration firmware block at most
\* once: once when it runs open_hmd() that far, not at all when the hmd is
\* already open; a failed read or parse fails the call after that one read;
\* and no step changes the imu_calibration of an hmd that stays allocated
FwReads(trace) == Count(trace, {"read_firmware_block"})
C14_CalibrationReadOnce ==
  [][/\ \A a \in Addrs :
          (heap[a].alloc /\ heap'[a].alloc) =>
            heap'[a].imu_calibration = heap[a].imu_calibration
     /\ last'.op = "open_device" =>
          /\ FwReads(last'.trace) <= 1
          /\ Count(last'.trace, {"push"}) = 1 => FwReads(last'.trace) = 1
          /\ last'.fail \in {StepFwBlock, StepParseCalib} =>
               /\ FwReads(last'.trace) = 1
               /\ last'.ret = NULL /\ rift_hmds' = rift_hmds
          /\ last'.list_before # <<>> /\ last'.hmd # NULL /\ last'.trace = <<>>
               => heap'[last'.hmd].imu_calibration # NoCalib
     /\ last'.op # "open_device" => FwReads(last'.trace) = 0]_vars
C14_Witness ==
  /\ last.op = "open_device" /\ last.fail = StepFwBlock /\ last.ret = NULL
  /\ FwReads(last.trace) = 1
  /\ \E a \in Addrs :
       /\ Registered(a) /\ heap[a].seen_report /\ heap[a].use_count >= 1
       /\ heap[a].imu_calibration = TurnedCalib

\* C15: once a controller report has been decoded in a poll, the controls
\* state getf() returns afterwards is that of the most recent decoded
\* controller report
C15_ControlsStateCached ==
  (last.op = "getf" /\ last.type = "OHMD_CONTROLS_STATE"
   /\ heap[last.hmd].alloc /\ heap[last.hmd].seen_controls # 0) =>
    last.out = heap[last.hmd].seen_controls

\* C16: within one head-motion report, every forwarded sample after the first
\* forwarded one is handed the fixed tick length 1/imu_hz as dt, whatever the
\* report's timestamp and last_imu_timestamp are
C16_LaterSamplesUseTickLen ==
  (rd.b0 = 101 /\ rd.parsed) =>
    \A n \in 2..Len(rd.fwd) : rd.fwd[n].dt = U32(0, 1000000 \div rd.imu_hz)
C16_Witness ==
  /\ rd.b0 = 101 /\ rd.parsed /\ ~rd.first /\ Len(rd.fwd) = 3
  /\ rd.prev_timestamp # U32Zero /\ rd.timestamp # rd.prev_timestamp
  /\ rd.fwd[1].dt # U32(0, 1000000 \div rd.imu_hz)
  /\ rd.fwd[3].dt = U32(0, 1000000 \div rd.imu_hz)

\* C17: the step that handles a head-motion report that parses leaves that
\* report's timestamp in last_imu_timestamp, also when the loop stopped at
\* an invalid sample and when it forwarded nothing; no other step changes
\* last_imu_timestamp of an hmd that stays allocated
C17_TimestampOfLastReport ==
  [][\A a \in Addrs :
       (heap[a].alloc /\ heap'[a].alloc) =>
         IF /\ pc = "poll" /\ pc' = "poll" /\ poll.hmd = a
            /\ rd'.size > 0 /\ rd'.b0 = 101 /\ rd'.parsed
         THEN heap'[a].last_imu_timestamp = rd'.timestamp
         ELSE heap'[a].last_imu_timestamp = heap[a].last_imu_timestamp]_vars
C17_Witness ==
  /\ pc = "poll" /\ rd.b0 = 101 /\ rd.parsed /\ ~rd.first
  /\ Invalid(rd.markers[1]) /\ rd.fwd = <<>>
  /\ rd.timestamp # rd.prev_timestamp
  /\ heap[poll.hmd].last_imu_timestamp = rd.timestamp

\* C18: a poll starts at handle 0; every read is of the current handle; a
\* read of positive length is dispatched once and the poll stays on the
\* handle; a read of zero length or an error moves on to the next handle and,
\* on the last handle, ends the poll, which is the only way it ends; and
\* when every handle returns such a read in the end, the poll ends
C18_PollLoop ==
  /\ [][/\ (pc = "idle" /\ pc' = "poll") => (poll'.i = 1 /\ poll'.hmd # NULL)
        /\ pc = "poll" =>
             /\ rd'.handle = poll.i
             /\ IF rd'.size > 0
                THEN /\ pc' = "poll" /\ poll'.i = poll.i
                     /\ Len(rd'.cmds) <= 1 /\ Len(rd'.fwd) <= 3
                     /\ (rd'.b0 = 101 /\ rd'.parsed) =>
                          heap'[poll.hmd].seen_report
                     /\ rd'.b0 = 102 =>
                          heap'[poll.hmd].display_on = rd'.prox
                ELSE IF poll.i < 3
                THEN pc' = "poll" /\ poll'.i = poll.i + 1 /\ heap' = heap
                ELSE pc' = "idle" /\ heap' = heap]_vars
  /\ (pc = "poll" ~> pc = "idle")
C18_Witness ==
  /\ pc = "idle" /\ last.op = "update_device" /\ last.hmd # NULL
  /\ rd.size = 0 /\ rd.handle = 3
  /\ heap[last.hmd].alloc /\ heap[last.hmd].seen_report
  /\ heap[last.hmd].display_on

\* C19: an hmd is on the list only after open_hmd() ran the whole open
\* sequence, hmd_enable(true) last: every hmd on the list is allocated with
\* use_count >= 1, its three handles open, device info, imu config and
\* calibration read, and update_hmd() only ever polls such an hmd
OpenSequence ==
  HidOpenEv \o <<"read_device_info", "get_report1", "read_imu_config",
                 "read_firmware_block", "hmd_enable(true)", "push">>
C19_RegisteredFullyOpen ==
  /\ \A n \in 1..Len(rift_hmds) :
       LET hmd == heap[rift_hmds[n].hmd]
       IN  /\ hmd.alloc /\ hmd.use_count >= 1
           /\ \A i \in 1..3 : hmd.handles[i]
           /\ hmd.device_info /\ hmd.imu_hz > 0
           /\ hmd.imu_calibration \in CalibBlobs
  /\ (last.op = "open_device" /\ rift_hmds # last.list_before) =>
       /\ last.trace = OpenSequence
       /\ Len(rift_hmds) = Len(last.list_before) + 1
  /\ pc = "poll" => (Registered(poll.hmd) /\ AllHandlesOpen(poll.hmd))
C19_Witness ==
  /\ Len(rift_hmds) = 2 /\ last.op = "open_device"
  /\ last.trace = OpenSequence /\ Len(last.list_before) = 1
  /\ \E n \in 1..2 : heap[rift_hmds[n].hmd].seen_report

\* C20: a system-state report of one byte has no proximity byte of its own,
\* so handling it sends no display command and leaves display_on as it was,
\* whatever an earlier report left in the poll buffer
C20_ProxFlagFromReport ==
  (rd.b0 = 102 /\ rd.size = 1) =>
    /\ rd.cmds = <<>>
    /\ heap[last.hmd].display_on = rd.display_before

\* C21: for a processed report with timestamp t2 that follows a processed
\* report with nonzero timestamp t1, the dt of the first forwarded sample is
\* (t2 - t1) mod 2^32 microseconds, that is, t1 + dt = t2 modulo 2^32 with
\* 0 <= dt < 2^32
\* u + e for a small integer e, the high half not reduced
Shift32(u, e) ==
  LET lo == u[2] + e
  IN  IF lo < 0 THEN U32(u[1] - 1, lo + W16)
      ELSE IF lo >= W16 THEN U32(u[1] + 1, lo - W16)
      ELSE U32(u[1], lo)
\* a + b modulo 2^32
Sum32(a, b) ==
  LET lo == a[2] + b[2]
      carry == IF lo >= W16 THEN 1 ELSE 0
  IN  U32((a[1] + b[1] + carry) % W16, lo % W16)
TimestampDt ==
  /\ rd.b0 = 101 /\ rd.parsed /\ ~rd.first
  /\ rd.prev_timestamp # U32Zero /\ rd.fwd # <<>>
Spacing(u) ==
  IF u[1] < 256 THEN 1
  ELSE IF u[1] >= W16 THEN 256
  ELSE 2^(CHOOSE n \in 1..8 : u[1] < 2^(8 + n) /\ u[1] >= 2^(7 + n))
====
